---- MODULE Spec2Model ----
(***************************************************************************)
(* quickssh: a terminal list of SSH host shortcuts with an add wizard, a   *)
(* filter, a TOML store and a hand-off to ssh.  The repository holds three *)
(* programs (three `package main` files), modelled side by side:           *)
(*   variant "main"  : src/main.go            (plain list + add wizard)    *)
(*   variant "main2" : src/main2.go           (bubbles list + add wizard)  *)
(*   variant "list"  : src/unnamed/part_000   (bubbles list + random add)  *)
(* A Go string is modelled as a sequence of one-character strings.         *)
(***************************************************************************)
EXTENDS Integers, Sequences, FiniteSets, TLC

VARIABLES
    variant,      \* which of the three programs runs
    pc,           \* "boot", "run", "child", "exit0", "exit1", "panic"
    file,         \* the Store: .mysshconfig.toml
    loadErrs,     \* number of "Error loading config" lines printed
    entries,      \* model.entries      (main.go, main2.go)
    choices,      \* model.choices      (main.go, main2.go)
    cursor,       \* model.cursor       (main.go)
    selected,     \* model.selected     (main.go)
    inputBuffer,  \* model.inputBuffer  (main.go, main2.go)
    inputField,   \* model.inputField   (main.go, main2.go)
    isAdding,     \* model.isAdding     (main.go, main2.go)
    hosts,        \* model.hosts        (part_000)
    list,         \* model.list         (main2.go, part_000): the bubbles list.Model
    pending,      \* messages produced by commands and not yet delivered
    ssh,          \* the ssh child process: whether started, its argument
    typed,        \* number of key presses that have appended text so far
    adds,         \* number of times the add key started an insert so far
    saved,        \* outcome of saveConfig in the last event: "none", "ok", "failed"
    errOut        \* whether the last event wrote a line to stderr

vars == <<variant, pc, file, loadErrs, entries, choices, cursor, selected,
          inputBuffer, inputField, isAdding, hosts, list, pending, ssh,
          typed, adds, saved, errOut>>

----------------------------------------------------------------------------
(* Bounds of the model. *)

\* longest host list in the Store when the program starts
MaxInit == 2
\* presses of the add key that start a wizard or insert a record, over one run
MaxAdds == 1
\* key presses that append text, over one run
MaxTyped == 3
\* longest text in the filter input
MaxFilterLen == 2
\* command results in flight at once
MaxPending == 1

\* keys handled between the exit of the ssh child and the quit message
MaxLateKeys == 1

----------------------------------------------------------------------------
(* Strings. *)

TrueLit == <<"t", "r", "u", "e">>
Comma == ","
Space == <<" ">>

IsPrefix(p, s) == Len(p) <= Len(s) /\ SubSeq(s, 1, Len(p)) = p

\* strings.Join(ss, sep)
RECURSIVE Join(_, _)
Join(ss, sep) ==
    IF ss = <<>> THEN <<>>
    ELSE IF Len(ss) = 1 THEN ss[1]
    ELSE ss[1] \o sep \o Join(Tail(ss), sep)

\* strings.Split(s, sep) for a one-character separator: never an empty result,
\* Split("", ",") is one empty string.
RECURSIVE Split(_, _)
Split(s, sep) ==
    IF \A i \in 1..Len(s) : s[i] # sep THEN <<s>>
    ELSE LET i == CHOOSE i \in 1..Len(s) :
                      s[i] = sep /\ \A j \in 1..(i - 1) : s[j] # sep
         IN  <<SubSeq(s, 1, i - 1)>> \o Split(SubSeq(s, i + 1, Len(s)), sep)

----------------------------------------------------------------------------
(* Host records.  A Go slice is nil or holds elements; the TOML encoder    *)
(* tells the two apart.                                                    *)

NilSlice == [isNil |-> TRUE, elems |-> <<>>]
Slice(s) == [isNil |-> FALSE, elems |-> s]

SSHHost(host, hostname, user, fa, tags, desc) ==
    [Host |-> host, HostName |-> hostname, User |-> user,
     ForwardAgent |-> fa, Tags |-> tags, Description |-> desc]

\* var fields
fields == <<"Host", "HostName", "User", "ForwardAgent", "Tags", "Description">>

----------------------------------------------------------------------------
(* The Store: BurntSushi/toml over Config{Hosts []SSHHost}.  A document is *)
(* the sequence of [[hosts]] tables; a table maps the keys written to the  *)
(* values written.  The key of each field is its struct tag.               *)

\* the key of the Tags field: `tomo:"ags"` is no toml tag, so the field name
TagsKey(v) ==
    CASE v = "main"  -> "Tags"
      [] v = "main2" -> "ags"
      [] v = "list"  -> "tags"

\* a basic string as written: quote and backslash are escaped
RECURSIVE Escape(_)
Escape(s) ==
    IF s = <<>> THEN <<>>
    ELSE IF Head(s) \in {"\"", "\\"} THEN <<"\\", Head(s)>> \o Escape(Tail(s))
    ELSE <<Head(s)>> \o Escape(Tail(s))

RECURSIVE Unescape(_)
Unescape(s) ==
    IF s = <<>> THEN <<>>
    ELSE IF Head(s) = "\\" /\ Len(s) >= 2 THEN <<s[2]>> \o Unescape(Tail(Tail(s)))
    ELSE <<Head(s)>> \o Unescape(Tail(s))

EscapeAll(ss) == [i \in 1..Len(ss) |-> Escape(ss[i])]
UnescapeAll(ss) == [i \in 1..Len(ss) |-> Unescape(ss[i])]

EncodedKeysNoDescription(v, h) ==
    {"host", "hostname", "user", "forward_agent"}
        \cup (IF h.Tags.isNil THEN {} ELSE {TagsKey(v)})

\* the encoder skips a nil slice field
EncodedKeys(v, h) ==
    {"host", "hostname", "user", "forward_agent", "description"}
        \cup (IF h.Tags.isNil THEN {} ELSE {TagsKey(v)})

EncodeField(v, h, k) ==
    CASE k = "host"          -> Escape(h.Host)
      [] k = "hostname"      -> Escape(h.HostName)
      [] k = "user"          -> Escape(h.User)
      [] k = "forward_agent" -> h.ForwardAgent
      [] k = "description"   -> Escape(h.Description)
      [] k = TagsKey(v)      -> EscapeAll(h.Tags.elems)

EncodeHost(v, h) == [k \in EncodedKeys(v, h) |-> EncodeField(v, h, k)]

\* encoder.Encode(config)
Encode(v, hs) == [i \in 1..Len(hs) |-> EncodeHost(v, hs[i])]

\* a key missing from the table leaves the field at its zero value
DecodeHost(v, t) ==
    [Host         |-> IF "host" \in DOMAIN t THEN Unescape(t["host"]) ELSE <<>>,
     HostName     |-> IF "hostname" \in DOMAIN t THEN Unescape(t["hostname"]) ELSE <<>>,
     User         |-> IF "user" \in DOMAIN t THEN Unescape(t["user"]) ELSE <<>>,
     ForwardAgent |-> IF "forward_agent" \in DOMAIN t THEN t["forward_agent"] ELSE FALSE,
     Tags         |-> IF TagsKey(v) \in DOMAIN t
                      THEN Slice(UnescapeAll(t[TagsKey(v)])) ELSE NilSlice,
     Description  |-> IF "description" \in DOMAIN t THEN Unescape(t["description"]) ELSE <<>>]

\* toml.DecodeFile(path, &config)
Decode(v, doc) == [i \in 1..Len(doc) |-> DecodeHost(v, doc[i])]

\* a missing or malformed file
BadFile == [valid |-> FALSE, doc |-> <<>>]
GoodFile(doc) == [valid |-> TRUE, doc |-> doc]

\* loadConfig: the hosts and whether it failed
loadConfig(v, f) ==
    IF f.valid THEN [err |-> FALSE, Hosts |-> Decode(v, f.doc)]
    ELSE [err |-> TRUE, Hosts |-> <<>>]

\* saveConfig: the file after a save that succeeds (ok) or fails in os.Create
saveConfig(v, f, hs, ok) == IF ok THEN GoodFile(Encode(v, hs)) ELSE f

SaveOutcome(ok) == IF ok THEN "ok" ELSE "failed"

----------------------------------------------------------------------------
(* Inputs. *)

P1 == SSHHost(<<"a", "b">>, <<"h">>, <<"u">>, TRUE, Slice(<< <<"t">> >>), <<>>)
P2 == SSHHost(<<"a", "c", "b">>, <<"h">>, <<>>, FALSE, NilSlice, <<"\"">>)
P3 == SSHHost(<<"c">>, <<>>, <<"u">>, FALSE, Slice(<<>>), <<"b">>)

\* the records a Store can hold when each program starts
HostPool(v) ==
    CASE v = "main"  -> {P1, P3}
      [] v = "main2" -> {P1, P3}
      [] v = "list"  -> {P1, P2}

SeqsUpTo(S, n) == UNION {[1..m -> S] : m \in 0..n}

\* main2 starts from lists without repeated records
InitHostLists(v) ==
    {hs \in SeqsUpTo(HostPool(v), MaxInit) :
        v = "main2" => \A i, j \in 1..Len(hs) : hs[i] = hs[j] => i = j}

\* the user fills in one of these forms: the text of each wizard field is a
\* prefix of the form's text for that field
Forms == {
    << <<>>, <<>>, <<>>, TrueLit, <<>>, <<>> >>,
    << <<"q">>, <<>>, <<>>, <<>>, <<"t", ",", "r">>, <<>> >>,
    << <<>>, <<"e", "s", "c">>, <<>>, <<>>, <<>>, <<"e">> >>,
    << <<>>, <<>>, <<"c", "t", "r", "l", "+", "c">>, <<>>, <<>>, <<>> >>}

Typeable(buf) ==
    \E F \in Forms : \A i \in 1..Len(F) : IsPrefix(buf[i], F[i])

\* msg.String() of a key
KeyString(k) ==
    CASE k = "up"     -> <<"u", "p">>
      [] k = "down"   -> <<"d", "o", "w", "n">>
      [] k = "esc"    -> <<"e", "s", "c">>
      [] k = "enter"  -> <<"e", "n", "t", "e", "r">>
      [] k = "ctrl+c" -> <<"c", "t", "r", "l", "+", "c">>
      [] k = "backspace" -> <<"b", "a", "c", "k", "s", "p", "a", "c", "e">>
      [] OTHER        -> <<k>>

\* keys whose text the wizard takes: every key but enter and backspace
EnterKey == "enter"
BackspaceKey == "backspace"

----------------------------------------------------------------------------
(* State shared by the three programs. *)

\* the ssh child: whether it was started, its argument, whether the UI held
\* the terminal then, and the keys handled since it exited
NoSsh == [started |-> FALSE, arg |-> <<>>, uiUp |-> FALSE, late |-> 0]

\* list.Model of a program that has none, and before list.New
NoList == [items |-> <<>>, filteredItems |-> <<>>, filterState |-> "Unfiltered",
           filterValue |-> <<>>, index |-> 0, statusMessage |-> <<>>]

InitOf(v) ==
    /\ variant = v
    /\ pc = "boot"
    /\ file \in {BadFile} \cup {GoodFile(Encode(v, hs)) : hs \in InitHostLists(v)}
    /\ loadErrs = 0
    /\ entries = <<>>
    /\ choices = <<>>
    /\ cursor = 0
    /\ selected = {}
    /\ inputBuffer = <<>>
    /\ inputField = 0
    /\ isAdding = FALSE
    /\ hosts = <<>>
    /\ list = NoList
    /\ pending = <<>>
    /\ ssh = NoSsh
    /\ typed = 0
    /\ adds = 0
    /\ saved = "none"
    /\ errOut = FALSE

\* an event that saves nothing and reports nothing
Quiet == saved' = "none" /\ errOut' = FALSE

\* user + "@" + hostname
connectArgSwapped(entry) == entry.HostName \o <<"@">> \o entry.User

connectArg(entry) == entry.User \o <<"@">> \o entry.HostName

\* make([]string, len(fields))
EmptyBuffers == [i \in 1..Len(fields) |-> <<>>]

\* m.inputBuffer[m.inputField] with its last byte removed, when it has one
BackspaceBuffer(buf, f) ==
    IF Len(buf[f + 1]) > 0
    THEN [buf EXCEPT ![f + 1] = SubSeq(@, 1, Len(@) - 1)]
    ELSE buf

\* m.inputBuffer[m.inputField] += msg.String()
TypeBuffer(buf, f, k) == [buf EXCEPT ![f + 1] = @ \o KeyString(k)]

----------------------------------------------------------------------------
(* The bubbles list.Model as the two list programs use it.  index is       *)
(* list.Index(): Paginator.Page * PerPage + cursor.  The default filter    *)
(* is a fuzzy match: the term's characters occur in the target in order.   *)
(* The ranking of the matches is left out: they keep the items' order.     *)

\* sshItem.FilterValue of main2.go, SSHHost.FilterValue of part_000
FilterValueHostOnly(v, i) == i.Host

FilterValue(v, i) ==
    IF v = "main2"
    THEN i.Host \o Space \o i.Description \o Space \o Join(i.Tags.elems, Space)
    ELSE i.Host

\* whether term is a subsequence of target
RECURSIVE FuzzyMatch(_, _)
FuzzyMatch(term, target) ==
    IF term = <<>> THEN TRUE
    ELSE IF target = <<>> THEN FALSE
    ELSE IF Head(term) = Head(target) THEN FuzzyMatch(Tail(term), Tail(target))
    ELSE FuzzyMatch(term, Tail(target))

\* the items a term matches, by each item's FilterValue
RECURSIVE filterItems(_, _, _)
filterItems(v, term, items) ==
    IF items = <<>> THEN <<>>
    ELSE (IF term = <<>> \/ FuzzyMatch(term, FilterValue(v, Head(items)))
          THEN <<Head(items)>> ELSE <<>>) \o filterItems(v, term, Tail(items))

\* list.New(items, delegate, 0, 0)
ListNew(items) ==
    [items |-> items, filteredItems |-> <<>>, filterState |-> "Unfiltered",
     filterValue |-> <<>>, index |-> 0, statusMessage |-> <<>>]

VisibleItems(l) == IF l.filterState # "Unfiltered" THEN l.filteredItems ELSE l.items

\* SelectedItem() is nil when the index is not one of the visible items
HasSelection(l) == l.index < Len(VisibleItems(l))
SelectedItem(l) == VisibleItems(l)[l.index + 1]

\* the result of the filterItems command issued by list l
MatchesMsg(v, l) ==
    [type |-> "FilterMatches",
     items |-> IF l.filterValue = <<>> \/ l.filterState = "Unfiltered"
               THEN l.items ELSE filterItems(v, l.filterValue, l.items)]

resetFiltering(l) ==
    IF l.filterState = "Unfiltered" THEN l
    ELSE [l EXCEPT !.filterState = "Unfiltered", !.filterValue = <<>>,
                   !.filteredItems = <<>>]

\* handleBrowsing keeps the index in bounds after any message
ClampIndex(l) ==
    IF l.index > Len(VisibleItems(l)) - 1
    THEN [l EXCEPT !.index = IF Len(VisibleItems(l)) > 0
                             THEN Len(VisibleItems(l)) - 1 ELSE 0]
    ELSE l

CursorUp(l) == IF l.index > 0 THEN [l EXCEPT !.index = @ - 1] ELSE l
CursorDown(l) ==
    IF l.index < Len(VisibleItems(l)) - 1 THEN [l EXCEPT !.index = @ + 1] ELSE l

\* the "/" key: start editing the filter
StartFilter(l) ==
    [l EXCEPT !.filteredItems = IF l.filterValue = <<>> THEN l.items ELSE @,
              !.index = 0, !.filterState = "Filtering", !.statusMessage = <<>>]

\* handleBrowsing on a key, for the keys of the default KeyMap.  main2.go never
\* sizes its list, so PerPage is 1 and a page key moves by one item; part_000
\* sizes it to the window, and the few items of this model are one page.
BrowseKey(v, l, k) ==
    ClampIndex(
        CASE k = "esc" /\ l.filterState = "FilterApplied" -> resetFiltering(l)
          [] k \in {"up", "k"}                   -> CursorUp(l)
          [] k \in {"down", "j"}                 -> CursorDown(l)
          [] k \in {"u", "b"} /\ v = "main2"     -> CursorUp(l)
          [] k = "d" /\ v = "main2"              -> CursorDown(l)
          [] k = "/" /\ Len(l.items) > 0         -> StartFilter(l)
          [] OTHER                               -> l)

\* whether handleBrowsing answers the key with tea.Quit
BrowseQuits(l, k) ==
    \/ k = "q"
    \/ k = "esc" /\ l.filterState # "FilterApplied"

\* the keys the filter's text input takes as text
IsRune(k) == KeyString(k) = <<k>>

\* AcceptWhileFiltering, enabled while the filter text is not empty
AcceptKeys == {"enter", "up", "down"}

\* handleFiltering on a key: cancel, accept, or edit the filter text
FilterKey(l, k) ==
    IF k = "esc" THEN resetFiltering(l)
    ELSE IF k \in AcceptKeys /\ l.filterValue # <<>>
    THEN IF Len(l.items) = 0 THEN l
         ELSE IF Len(VisibleItems(l)) = 0 THEN resetFiltering(l)
         ELSE [l EXCEPT !.filterState = "FilterApplied", !.statusMessage = <<>>]
    ELSE IF k = BackspaceKey /\ l.filterValue # <<>>
    THEN [l EXCEPT !.filterValue = SubSeq(@, 1, Len(@) - 1)]
    ELSE IF IsRune(k) THEN [l EXCEPT !.filterValue = @ \o <<k>>]
    ELSE l

\* list.Update on a key: the list, whether it answers tea.Quit, and the
\* FilterMatchesMsg its command will deliver
ListUpdateKey(v, l, k) ==
    IF k = "ctrl+c" THEN [list |-> l, quit |-> TRUE, msgs |-> <<>>]
    ELSE IF l.filterState = "Filtering"
    THEN LET n == FilterKey(l, k)
         IN  [list |-> n, quit |-> FALSE,
              msgs |-> IF n.filterState = "Filtering" /\ n.filterValue # l.filterValue
                       THEN <<MatchesMsg(v, n)>> ELSE <<>>]
    ELSE [list |-> BrowseKey(v, l, k), quit |-> BrowseQuits(l, k), msgs |-> <<>>]

\* list.Update on a message that is no key: a FilterMatchesMsg replaces the
\* filtered items, any other goes through the handler of the current state
ListUpdateMsg(l, msg) ==
    IF msg.type = "FilterMatches" THEN [l EXCEPT !.filteredItems = msg.items]
    ELSE LET n == IF msg.type = "statusTimeout"
                  THEN [l EXCEPT !.statusMessage = <<>>] ELSE l
         IN  IF n.filterState = "Filtering" THEN n ELSE ClampIndex(n)

\* InsertItem(index, item)
InsertItem(l, index, item) ==
    [l EXCEPT !.items = SubSeq(@, 1, index) \o <<item>> \o SubSeq(@, index + 1, Len(@))]

\* removeItemFromSlice: nothing when the index is past the end
removeItemFromSlice(s, index) ==
    IF index >= Len(s) THEN s
    ELSE SubSeq(s, 1, index) \o SubSeq(s, index + 2, Len(s))

\* RemoveItem(index): the same index is removed from the items and, under a
\* filter, from the filtered items
RemoveItem(l, index) ==
    LET n == [l EXCEPT !.items = removeItemFromSlice(@, index)]
    IN  IF l.filterState # "Unfiltered"
        THEN LET f == [n EXCEPT !.filteredItems = removeItemFromSlice(@, index)]
             IN  IF Len(f.filteredItems) = 0 THEN resetFiltering(f) ELSE f
        ELSE n

NewStatusMessage(l, s) == [l EXCEPT !.statusMessage = s]

\* the filter texts a user enters are prefixes of these
FilterTexts(v) ==
    IF v = "main2" THEN {<<"a", "b">>, <<"b">>}
    ELSE {<<"a", "b">>, <<"b", "a">>}

FilterTypeable(v, s) ==
    /\ Len(s) <= MaxFilterLen
    /\ \E t \in FilterTexts(v) : IsPrefix(s, t)

----------------------------------------------------------------------------
(* Variant "main": src/main.go *)

KeysMain == {"q", "ctrl+c", "esc", "up", "k", "down", "j", "a", "d", "enter", " ",
             "backspace", "t", "r", "u", "e", ","}

\* initialModel: choices are the Host of each entry
initialChoices(hs) == [i \in 1..Len(hs) |-> hs[i].Host]

\* main: a failed load is printed and leaves cfg nil, and *cfg then panics
MainBoot ==
    /\ variant = "main" /\ pc = "boot"
    /\ LET r == loadConfig(variant, file) IN
       IF r.err
       THEN /\ loadErrs' = loadErrs + 1
            /\ pc' = "panic"
            /\ UNCHANGED <<entries, choices, inputBuffer>>
       ELSE /\ loadErrs' = loadErrs
            /\ \E uiOk \in BOOLEAN : pc' = IF uiOk THEN "run" ELSE "exit1"
            /\ entries' = r.Hosts
            /\ choices' = initialChoices(r.Hosts)
            /\ inputBuffer' = EmptyBuffers
    /\ Quiet
    /\ UNCHANGED <<variant, file, cursor, selected, inputField, isAdding, hosts,
                   list, pending, ssh, typed, adds>>

\* the record the wizard of main.go builds from its buffers
MainNewHost(buf) ==
    SSHHost(buf[1], buf[2], buf[3], buf[4] = TrueLit, Slice(<<>>), buf[6])

MainWizardEnterLate ==
    /\ variant = "main" /\ pc = "run" /\ isAdding
    /\ inputField' = inputField + 1
    /\ IF inputField + 1 > Len(fields)
       THEN LET newHost == MainNewHost(inputBuffer)
                newEntries == Append(entries, newHost)
            IN  /\ entries' = newEntries
                /\ choices' = Append(choices, newHost.Host)
                /\ isAdding' = FALSE
                /\ \E ok \in BOOLEAN :
                      /\ file' = saveConfig(variant, file, newEntries, ok)
                      /\ saved' = SaveOutcome(ok)
                /\ errOut' = FALSE
       ELSE /\ UNCHANGED <<entries, choices, isAdding, file>>
            /\ Quiet
    /\ UNCHANGED <<variant, pc, loadErrs, cursor, selected, inputBuffer, hosts,
                   list, pending, ssh, typed, adds>>

\* isAdding, KeyEnter: next field, or build, append and save the record
MainWizardEnter ==
    /\ variant = "main" /\ pc = "run" /\ isAdding
    /\ inputField' = inputField + 1
    /\ IF inputField + 1 >= Len(fields)
       THEN LET newHost == MainNewHost(inputBuffer)
                newEntries == Append(entries, newHost)
            IN  /\ entries' = newEntries
                /\ choices' = Append(choices, newHost.Host)
                /\ isAdding' = FALSE
                /\ \E ok \in BOOLEAN :
                      /\ file' = saveConfig(variant, file, newEntries, ok)
                      /\ saved' = SaveOutcome(ok)
                /\ errOut' = FALSE
       ELSE /\ UNCHANGED <<entries, choices, isAdding, file>>
            /\ Quiet
    /\ UNCHANGED <<variant, pc, loadErrs, cursor, selected, inputBuffer, hosts,
                   list, pending, ssh, typed, adds>>

\* isAdding, KeyBackspace
MainWizardBackspace ==
    /\ variant = "main" /\ pc = "run" /\ isAdding
    /\ inputBuffer' = BackspaceBuffer(inputBuffer, inputField)
    /\ Quiet
    /\ UNCHANGED <<variant, pc, file, loadErrs, entries, choices, cursor, selected,
                   inputField, isAdding, hosts, list, pending, ssh, typed, adds>>

\* isAdding, any other key
MainWizardType(k) ==
    /\ variant = "main" /\ pc = "run" /\ isAdding
    /\ k \notin {EnterKey, BackspaceKey}
    /\ typed < MaxTyped
    /\ Typeable(TypeBuffer(inputBuffer, inputField, k))
    /\ inputBuffer' = TypeBuffer(inputBuffer, inputField, k)
    /\ typed' = typed + 1
    /\ Quiet
    /\ UNCHANGED <<variant, pc, file, loadErrs, entries, choices, cursor, selected,
                   inputField, isAdding, hosts, list, pending, ssh, adds>>

\* "ctrl+c", "q": tea.Quit
MainQuit(k) ==
    /\ variant = "main" /\ pc = "run" /\ ~isAdding
    /\ k \in {"ctrl+c", "q"}
    /\ pc' = "exit0"
    /\ Quiet
    /\ UNCHANGED <<variant, file, loadErrs, entries, choices, cursor, selected,
                   inputBuffer, inputField, isAdding, hosts, list, pending, ssh, typed, adds>>

\* "up", "k"
MainUp(k) ==
    /\ variant = "main" /\ pc = "run" /\ ~isAdding
    /\ k \in {"up", "k"}
    /\ cursor' = IF cursor > 0 THEN cursor - 1 ELSE cursor
    /\ Quiet
    /\ UNCHANGED <<variant, pc, file, loadErrs, entries, choices, selected,
                   inputBuffer, inputField, isAdding, hosts, list, pending, ssh, typed, adds>>

\* "down", "j"
MainDown(k) ==
    /\ variant = "main" /\ pc = "run" /\ ~isAdding
    /\ k \in {"down", "j"}
    /\ cursor' = IF cursor < Len(choices) - 1 THEN cursor + 1 ELSE cursor
    /\ Quiet
    /\ UNCHANGED <<variant, pc, file, loadErrs, entries, choices, selected,
                   inputBuffer, inputField, isAdding, hosts, list, pending, ssh, typed, adds>>

\* "a": start the wizard
MainAdd(k) ==
    /\ variant = "main" /\ pc = "run" /\ ~isAdding
    /\ k = "a"
    /\ adds < MaxAdds
    /\ adds' = adds + 1
    /\ isAdding' = TRUE
    /\ inputBuffer' = EmptyBuffers
    /\ inputField' = 0
    /\ Quiet
    /\ UNCHANGED <<variant, pc, file, loadErrs, entries, choices, cursor, selected,
                   hosts, list, pending, ssh, typed>>

\* s[:index] ++ s[index+1:]
RemoveAt(s, index) == SubSeq(s, 1, index) \o SubSeq(s, index + 2, Len(s))

\* the cursor after the record at it was removed and n records are left
CursorKeptAfterDelete(c, n) == c

CursorAfterDelete(c, n) == IF c >= n /\ c > 0 THEN c - 1 ELSE c

\* "d": remove the record at the cursor and save
MainDelete(k) ==
    /\ variant = "main" /\ pc = "run" /\ ~isAdding
    /\ k = "d"
    /\ IF Len(entries) > 0
       THEN LET newEntries == RemoveAt(entries, cursor)
            IN  /\ entries' = newEntries
                /\ choices' = RemoveAt(choices, cursor)
                /\ cursor' = CursorAfterDelete(cursor, Len(newEntries))
                /\ \E ok \in BOOLEAN :
                      /\ file' = saveConfig(variant, file, newEntries, ok)
                      /\ saved' = SaveOutcome(ok)
                      /\ errOut' = ~ok
       ELSE /\ UNCHANGED <<entries, choices, cursor, file>>
            /\ Quiet
    /\ UNCHANGED <<variant, pc, loadErrs, selected, inputBuffer, inputField,
                   isAdding, hosts, list, pending, ssh, typed, adds>>

\* the entry "enter" uses: one of the selected, else the one at the cursor;
\* the set is empty when the index is out of range
MainConnectEntries ==
    IF Cardinality(selected) > 0
    THEN {entries[i + 1] : i \in {j \in selected : j < Len(entries)}}
    ELSE IF cursor < Len(entries) THEN {entries[cursor + 1]} ELSE {}

\* "enter", " ": run ssh on the entry; tea.Quit() only builds a message, so
\* the UI still holds the terminal
MainConnect(k) ==
    /\ variant = "main" /\ pc = "run" /\ ~isAdding
    /\ k \in {"enter", " "}
    /\ IF MainConnectEntries = {}
       THEN pc' = "panic" /\ ssh' = ssh
       ELSE \E entry \in MainConnectEntries :
               /\ ssh' = [started |-> TRUE, arg |-> connectArg(entry), uiUp |-> TRUE,
                         late |-> 0]
               /\ pc' = "child"
    /\ Quiet
    /\ UNCHANGED <<variant, file, loadErrs, entries, choices, cursor, selected,
                   inputBuffer, inputField, isAdding, hosts, list, pending, typed, adds>>

\* cmd.Run() returns: an error is printed, then os.Exit(0)
MainChildExit ==
    /\ variant = "main" /\ pc = "child"
    /\ \E failed \in BOOLEAN : errOut' = failed
    /\ pc' = "exit0"
    /\ saved' = "none"
    /\ UNCHANGED <<variant, file, loadErrs, entries, choices, cursor, selected,
                   inputBuffer, inputField, isAdding, hosts, list, pending, ssh, typed, adds>>

\* any other key in list mode: no case matches
MainOther(k) ==
    /\ variant = "main" /\ pc = "run" /\ ~isAdding
    /\ k \notin {"ctrl+c", "q", "up", "k", "down", "j", "a", "d", "enter", " "}
    /\ Quiet
    /\ UNCHANGED <<variant, pc, file, loadErrs, entries, choices, cursor, selected,
                   inputBuffer, inputField, isAdding, hosts, list, pending, ssh, typed, adds>>

\* model.Update of main.go on a key
MainUpdate(k) ==
    \/ (k = EnterKey /\ MainWizardEnter)
    \/ (k = BackspaceKey /\ MainWizardBackspace)
    \/ MainWizardType(k)
    \/ MainQuit(k)
    \/ MainUp(k)
    \/ MainDown(k)
    \/ MainAdd(k)
    \/ MainDelete(k)
    \/ MainConnect(k)
    \/ MainOther(k)

InitMain == InitOf("main")

NextMain ==
    \/ MainBoot
    \/ \E k \in KeysMain : MainUpdate(k)
    \/ MainChildExit

SpecMain == InitMain /\ [][NextMain]_vars

----------------------------------------------------------------------------
(* Variant "list": src/unnamed/part_000 *)

KeysList == {"q", "ctrl+c", "esc", "up", "k", "down", "j", "a", "d", "s",
             "enter", "/", "backspace", "b"}

\* string(rand.Intn(100)): one character below code 100
RandHostRunes == {"c"}
RandOtherRunes == {"a"}

\* generateRandomHost, with the four random characters drawn
generateRandomHost(r1, r2, r3, r4) ==
    SSHHost(<<r1>>, <<r2>>, <<r3>>, TRUE, Slice(<<>>), <<r4>>)

\* the key edits the filter text within the texts a user enters, and the
\* command it issues has room in flight
ListKeyAllowed(v, l, k) ==
    LET r == ListUpdateKey(v, l, k)
    IN  /\ (r.list.filterValue # l.filterValue /\ Len(r.list.filterValue) > Len(l.filterValue))
              => FilterTypeable(v, r.list.filterValue)
        /\ Len(pending) + Len(r.msgs) <= MaxPending

mainState == <<entries, choices, cursor, selected, inputBuffer, inputField, isAdding>>

\* newModel and main: a failed load is printed and leaves cfg nil, and
\* cfg.Hosts then panics
ListBoot ==
    /\ variant = "list" /\ pc = "boot"
    /\ LET r == loadConfig(variant, file) IN
       IF r.err
       THEN /\ loadErrs' = loadErrs + 1
            /\ pc' = "panic"
            /\ UNCHANGED <<hosts, list>>
       ELSE /\ loadErrs' = loadErrs
            /\ \E uiOk \in BOOLEAN : pc' = IF uiOk THEN "run" ELSE "exit1"
            /\ hosts' = r.Hosts
            /\ list' = ListNew(r.Hosts)
    /\ Quiet
    /\ UNCHANGED <<variant, file, mainState, pending, ssh, typed, adds>>

Filtering == list.filterState = "Filtering"

\* insertItem: the new host goes to the end of hosts and the front of the list
ListInsert(k) ==
    /\ variant = "list" /\ pc = "run" /\ ~Filtering
    /\ k = "a"
    /\ adds < MaxAdds
    /\ adds' = adds + 1
    /\ \E r1 \in RandHostRunes, r2 \in RandOtherRunes, r3 \in RandOtherRunes,
          r4 \in RandOtherRunes :
          LET newHost == generateRandomHost(r1, r2, r3, r4)
              ins == InsertItem(list, 0, newHost)
              msgs == IF list.filterState # "Unfiltered"
                      THEN <<MatchesMsg(variant, ins)>> ELSE <<>>
          IN  /\ Len(pending) + Len(msgs) <= MaxPending
              /\ hosts' = Append(hosts, newHost)
              /\ list' = NewStatusMessage(ins, <<"Added", newHost.HostName>>)
              /\ pending' = pending \o msgs
    /\ Quiet
    /\ UNCHANGED <<variant, pc, file, loadErrs, mainState, ssh, typed>>

\* the hosts whose Host differs from the removed item's
RECURSIVE RemoveByHost(_, _)
RemoveByHost(hs, host) ==
    IF hs = <<>> THEN <<>>
    ELSE (IF Head(hs).Host # host THEN <<Head(hs)>> ELSE <<>>)
             \o RemoveByHost(Tail(hs), host)

\* deleteItem: SelectedItem().(SSHHost) panics on nil
ListDelete(k) ==
    /\ variant = "list" /\ pc = "run" /\ ~Filtering
    /\ k = "d"
    /\ IF HasSelection(list)
       THEN /\ list' = RemoveItem(list, list.index)
            /\ hosts' = RemoveByHost(hosts, SelectedItem(list).Host)
            /\ pc' = pc
       ELSE /\ pc' = "panic"
            /\ UNCHANGED <<list, hosts>>
    /\ Quiet
    /\ UNCHANGED <<variant, file, loadErrs, mainState, pending, ssh, typed, adds>>

\* saveConfig: the error of saveConfig is dropped
ListSave(k) ==
    /\ variant = "list" /\ pc = "run" /\ ~Filtering
    /\ k = "s"
    /\ \E ok \in BOOLEAN :
          /\ file' = saveConfig(variant, file, hosts, ok)
          /\ saved' = SaveOutcome(ok)
    /\ errOut' = FALSE
    /\ list' = NewStatusMessage(list, <<"Saved Config">>)
    /\ UNCHANGED <<variant, pc, loadErrs, mainState, hosts, pending, ssh, typed, adds>>

\* every other key, and every key while filtering: m.list.Update(msg)
ListKey(k) ==
    /\ variant = "list" /\ pc = "run"
    /\ Filtering \/ k \notin {"a", "d", "s"}
    /\ ListKeyAllowed(variant, list, k)
    /\ LET r == ListUpdateKey(variant, list, k)
       IN  /\ list' = r.list
           /\ pending' = pending \o r.msgs
           /\ pc' = IF r.quit THEN "exit0" ELSE pc
    /\ Quiet
    /\ UNCHANGED <<variant, file, loadErrs, mainState, hosts, ssh, typed, adds>>

\* a message that is no key: a delivered command result, or a window size
ListMsg(msg) ==
    /\ variant = "list" /\ pc = "run"
    /\ list' = ListUpdateMsg(list, msg)
    /\ Quiet
    /\ UNCHANGED <<variant, pc, file, loadErrs, mainState, hosts, ssh, typed, adds>>

ListDeliver ==
    /\ pending # <<>>
    /\ ListMsg(Head(pending))
    /\ pending' = Tail(pending)

ListStatusTimeout ==
    /\ list.statusMessage # <<>>
    /\ ListMsg([type |-> "statusTimeout"])
    /\ pending' = pending

ListResize ==
    /\ ListMsg([type |-> "WindowSize"])
    /\ pending' = pending

\* model.Update of part_000 on a key
ListUpdate(k) ==
    \/ ListInsert(k)
    \/ ListDelete(k)
    \/ ListSave(k)
    \/ ListKey(k)

InitList == InitOf("list")

NextList ==
    \/ ListBoot
    \/ \E k \in KeysList : ListUpdate(k)
    \/ ListDeliver
    \/ ListStatusTimeout
    \/ ListResize

SpecList == InitList /\ [][NextList]_vars

----------------------------------------------------------------------------
(* Variant "main2": src/main2.go.  Update hands every message to the list  *)
(* first, then runs the wizard or its own key table.                       *)

KeysMain2 == {"q", "ctrl+c", "esc", "k", "j", "a", "d", "enter", " ", "backspace",
              "/", "t", "r", "u", "e", ",", "b"}

\* the record the wizard of main2.go builds from its buffers
Main2NewHost(buf) ==
    SSHHost(buf[1], buf[2], buf[3], buf[4] = TrueLit, Slice(Split(buf[5], Comma)),
            buf[6])

\* the key edits the filter text only within the texts a user enters
FilterEditAllowed(v, l, k) ==
    LET n == ListUpdateKey(v, l, k).list
    IN  (n.filterValue # l.filterValue /\ Len(n.filterValue) > Len(l.filterValue))
            => FilterTypeable(v, n.filterValue)

\* a key handled by Update: counted when the ssh child has exited and the quit
\* message is still on its way
LateKey ==
    IF ssh.started
    THEN ssh.late < MaxLateKeys /\ ssh' = [ssh EXCEPT !.late = @ + 1]
    ELSE ssh' = ssh

\* main and initialModel: a failed load is printed and leaves cfg nil, and *cfg
\* then panics; the model keeps the list and drops config.Hosts
Main2Boot ==
    /\ variant = "main2" /\ pc = "boot"
    /\ LET r == loadConfig(variant, file) IN
       IF r.err
       THEN /\ loadErrs' = loadErrs + 1
            /\ pc' = "panic"
            /\ list' = list
       ELSE /\ loadErrs' = loadErrs
            /\ \E uiOk \in BOOLEAN : pc' = IF uiOk THEN "run" ELSE "exit1"
            /\ list' = ListNew(r.Hosts)
    /\ Quiet
    /\ UNCHANGED <<variant, file, mainState, hosts, pending, ssh, typed, adds>>

\* isAdding, KeyEnter; the list has handled the key and its command is dropped
Main2WizardEnter ==
    /\ variant = "main2" /\ pc = "run" /\ isAdding
    /\ LateKey
    /\ list' = ListUpdateKey(variant, list, EnterKey).list
    /\ inputField' = inputField + 1
    /\ IF inputField + 1 >= Len(fields)
       THEN LET newHost == Main2NewHost(inputBuffer)
                newEntries == Append(entries, newHost)
            IN  /\ entries' = newEntries
                /\ choices' = Append(choices, newHost.Host)
                /\ isAdding' = FALSE
                /\ \E ok \in BOOLEAN :
                      /\ file' = saveConfig(variant, file, newEntries, ok)
                      /\ saved' = SaveOutcome(ok)
                /\ errOut' = FALSE
       ELSE /\ UNCHANGED <<entries, choices, isAdding, file>>
            /\ Quiet
    /\ UNCHANGED <<variant, pc, loadErrs, cursor, selected, inputBuffer, hosts,
                   pending, typed, adds>>

\* isAdding, KeyBackspace
Main2WizardBackspace ==
    /\ variant = "main2" /\ pc = "run" /\ isAdding
    /\ LateKey
    /\ list' = ListUpdateKey(variant, list, BackspaceKey).list
    /\ inputBuffer' = BackspaceBuffer(inputBuffer, inputField)
    /\ Quiet
    /\ UNCHANGED <<variant, pc, file, loadErrs, entries, choices, cursor, selected,
                   inputField, isAdding, hosts, pending, typed, adds>>

Main2WizardTypeQuits(k) ==
    /\ variant = "main2" /\ pc = "run" /\ isAdding
    /\ LateKey
    /\ k \notin {EnterKey, BackspaceKey}
    /\ typed < MaxTyped
    /\ Typeable(TypeBuffer(inputBuffer, inputField, k))
    /\ FilterEditAllowed(variant, list, k)
    /\ list' = ListUpdateKey(variant, list, k).list
    /\ pc' = IF ListUpdateKey(variant, list, k).quit THEN "exit0" ELSE pc
    /\ inputBuffer' = TypeBuffer(inputBuffer, inputField, k)
    /\ typed' = typed + 1
    /\ Quiet
    /\ UNCHANGED <<variant, file, loadErrs, entries, choices, cursor, selected,
                   inputField, isAdding, hosts, pending, adds>>

\* isAdding, any other key
Main2WizardType(k) ==
    /\ variant = "main2" /\ pc = "run" /\ isAdding
    /\ LateKey
    /\ k \notin {EnterKey, BackspaceKey}
    /\ typed < MaxTyped
    /\ Typeable(TypeBuffer(inputBuffer, inputField, k))
    /\ FilterEditAllowed(variant, list, k)
    /\ list' = ListUpdateKey(variant, list, k).list
    /\ inputBuffer' = TypeBuffer(inputBuffer, inputField, k)
    /\ typed' = typed + 1
    /\ Quiet
    /\ UNCHANGED <<variant, pc, file, loadErrs, entries, choices, cursor, selected,
                   inputField, isAdding, hosts, pending, adds>>

\* "a": start the wizard
Main2Add(k) ==
    /\ variant = "main2" /\ pc = "run" /\ ~isAdding
    /\ LateKey
    /\ k = "a"
    /\ adds < MaxAdds
    /\ ListKeyAllowed(variant, list, k)
    /\ LET r == ListUpdateKey(variant, list, k)
       IN  list' = r.list /\ pending' = pending \o r.msgs
    /\ adds' = adds + 1
    /\ isAdding' = TRUE
    /\ inputBuffer' = EmptyBuffers
    /\ inputField' = 0
    /\ Quiet
    /\ UNCHANGED <<variant, pc, file, loadErrs, entries, choices, cursor, selected,
                   hosts, typed>>

\* "d": save the entries
Main2Delete(k) ==
    /\ variant = "main2" /\ pc = "run" /\ ~isAdding
    /\ LateKey
    /\ k = "d"
    /\ ListKeyAllowed(variant, list, k)
    /\ LET r == ListUpdateKey(variant, list, k)
       IN  list' = r.list /\ pending' = pending \o r.msgs
    /\ \E ok \in BOOLEAN :
          /\ file' = saveConfig(variant, file, entries, ok)
          /\ saved' = SaveOutcome(ok)
          /\ errOut' = ~ok
    /\ UNCHANGED <<variant, pc, loadErrs, mainState, hosts, typed, adds>>

\* "enter", " " with a selected item: run ssh inside Update, the UI still up
Main2Connect(k) ==
    /\ variant = "main2" /\ pc = "run" /\ ~isAdding
    /\ ssh.started => ssh.late < MaxLateKeys
    /\ k \in {"enter", " "}
    /\ ListKeyAllowed(variant, list, k)
    /\ LET r == ListUpdateKey(variant, list, k)
       IN  /\ HasSelection(r.list)
           /\ list' = r.list
           /\ ssh' = [started |-> TRUE, arg |-> connectArg(SelectedItem(r.list)),
                      uiUp |-> TRUE,
                      late |-> IF ssh.started THEN ssh.late + 1 ELSE 0]
    /\ pc' = "child"
    /\ Quiet
    /\ UNCHANGED <<variant, file, loadErrs, mainState, hosts, pending, typed, adds>>

\* cmd.Run() returns: an error is printed, and Update returns the command
\* tea.Quit, whose message reaches the event loop like any other
QuitMsg == [type |-> "Quit"]

Main2ChildExit ==
    /\ variant = "main2" /\ pc = "child"
    /\ \E failed \in BOOLEAN : errOut' = failed
    /\ pc' = "run"
    /\ pending' = Append(pending, QuitMsg)
    /\ saved' = "none"
    /\ UNCHANGED <<variant, file, loadErrs, mainState, hosts, list, ssh, typed, adds>>

\* any other key in list mode, and enter or space with no selected item: the
\* list's own handling and its command
Main2Other(k) ==
    /\ variant = "main2" /\ pc = "run" /\ ~isAdding
    /\ LateKey
    /\ k \notin {"a", "d"}
    /\ ListKeyAllowed(variant, list, k)
    /\ LET r == ListUpdateKey(variant, list, k)
       IN  /\ k \in {"enter", " "} => ~HasSelection(r.list)
           /\ list' = r.list
           /\ pending' = pending \o r.msgs
           /\ pc' = IF r.quit THEN "exit0" ELSE pc
    /\ Quiet
    /\ UNCHANGED <<variant, file, loadErrs, mainState, hosts, typed, adds>>

\* a delivered command result: a quit message ends the program, any other
\* is handled by the list alone
Main2Deliver ==
    /\ variant = "main2" /\ pc = "run"
    /\ pending # <<>>
    /\ IF Head(pending) = QuitMsg
       THEN pc' = "exit0" /\ list' = list
       ELSE pc' = pc /\ list' = ListUpdateMsg(list, Head(pending))
    /\ pending' = Tail(pending)
    /\ Quiet
    /\ UNCHANGED <<variant, file, loadErrs, mainState, hosts, ssh, typed, adds>>

\* model.Update of main2.go on a key
Main2Update(k) ==
    \/ (k = EnterKey /\ Main2WizardEnter)
    \/ (k = BackspaceKey /\ Main2WizardBackspace)
    \/ Main2WizardType(k)
    \/ Main2Add(k)
    \/ Main2Delete(k)
    \/ Main2Connect(k)
    \/ Main2Other(k)

InitMain2 == InitOf("main2")

NextMain2 ==
    \/ Main2Boot
    \/ \E k \in KeysMain2 : Main2Update(k)
    \/ Main2Deliver
    \/ Main2ChildExit

SpecMain2 == InitMain2 /\ [][NextMain2]_vars

----------------------------------------------------------------------------
(* The Store alone: a sequence of host records is saved, then loaded.      *)
(* hosts holds the sequence given to saveConfig and entries the sequence   *)
(* loadConfig returns.                                                     *)

StoreTags == {NilSlice, Slice(<<>>), Slice(<< <<"t">>, <<"\"", "s">> >>)}

StorePool ==
    {SSHHost(h, <<"h">>, u, fa, tg, d) :
        h \in {<<"a">>, <<"\\", "b">>}, u \in {<<>>, <<"u">>}, fa \in BOOLEAN,
        tg \in StoreTags, d \in {<<>>, <<"a", "\"", "\\">>}}

InitStore ==
    /\ variant \in {"main", "main2", "list"}
    /\ pc = "store"
    /\ file = BadFile
    /\ hosts \in SeqsUpTo(StorePool, MaxInit)
    /\ loadErrs = 0
    /\ entries = <<>>
    /\ choices = <<>>
    /\ cursor = 0
    /\ selected = {}
    /\ inputBuffer = <<>>
    /\ inputField = 0
    /\ isAdding = FALSE
    /\ list = NoList
    /\ pending = <<>>
    /\ ssh = NoSsh
    /\ typed = 0
    /\ adds = 0
    /\ saved = "none"
    /\ errOut = FALSE

\* saveConfig(path, &Config{Hosts: hosts})
StoreSave ==
    /\ pc = "store"
    /\ \E ok \in BOOLEAN :
          /\ file' = saveConfig(variant, file, hosts, ok)
          /\ saved' = SaveOutcome(ok)
          /\ pc' = IF ok THEN "stored" ELSE pc
    /\ UNCHANGED <<variant, loadErrs, mainState, hosts, list, pending, ssh, typed,
                   adds, errOut>>

\* loadConfig(path)
StoreLoad ==
    /\ pc = "stored"
    /\ LET r == loadConfig(variant, file)
       IN  /\ entries' = r.Hosts
           /\ loadErrs' = IF r.err THEN loadErrs + 1 ELSE loadErrs
    /\ pc' = "loaded"
    /\ UNCHANGED <<variant, file, choices, cursor, selected, inputBuffer, inputField,
                   isAdding, hosts, list, pending, ssh, typed, adds, saved, errOut>>

NextStore == StoreSave \/ StoreLoad

SpecStore == InitStore /\ [][NextStore]_vars

----------------------------------------------------------------------------
(* The three programs together. *)

Init == InitMain \/ InitMain2 \/ InitList

Next == NextMain \/ NextMain2 \/ NextList

Spec == Init /\ [][Next]_vars

----------------------------------------------------------------------------
(* Properties. *)

\* the backing sequence and the visible list of the running variant
Backing == IF variant = "list" THEN hosts ELSE entries

Visible == IF variant = "main" THEN choices ELSE VisibleItems(list)

NoFilter == variant = "main" \/ list.filterState = "Unfiltered"

Max0(n) == IF n > 0 THEN n ELSE 0

(* C1: whenever no filter is active, the visible list holds as many items  *)
(* as the backing sequence holds records.                                  *)
C1_VisibleCountIsBackingCount ==
    (pc = "run" /\ NoFilter) => Len(Visible) = Len(Backing)

\* the record the wizard is said to build from its six buffers: the tags
\* buffer split on commas (an empty buffer giving no tags or one empty tag)
WizardRecords(buf) ==
    {SSHHost(buf[1], buf[2], buf[3], buf[4] = TrueLit, tg, buf[6]) :
        tg \in (IF buf[5] = <<>> THEN {Slice(<<>>), Slice(<< <<>> >>)}
                ELSE {Slice(Split(buf[5], Comma))})}

(* C2: a step that completes the wizard appends one record built from the  *)
(* six buffers (the fifth split on commas into the tags) at the end of the *)
(* backing sequence, saves the configuration and returns to Idle.          *)
C2_WizardCompletionAppends ==
    [][(pc = "run" /\ isAdding /\ ~isAdding')
          => /\ \E h \in WizardRecords(inputBuffer) : entries' = Append(entries, h)
             /\ saved' # "none"]_vars

(* C3: a failure to load the configuration is reported once and the        *)
(* program goes on to the UI with an empty list instead of aborting.       *)
C3_LoadFailureProceeds ==
    loadErrs > 0 => /\ loadErrs = 1
                    /\ pc # "panic"
                    /\ Len(Visible) = 0

(* C4: in the plain list the cursor stays within 0 .. max(0, length - 1)   *)
(* after every move, add and delete; deleting the last remaining record    *)
(* leaves the list empty with the cursor at 0.                             *)
C4_CursorInRange ==
    /\ 0 <= cursor
    /\ cursor <= Max0(Len(entries) - 1)
    /\ cursor <= Max0(Len(choices) - 1)

\* the last remaining record has been deleted and the empty list saved
C4_Witness ==
    /\ variant = "main"
    /\ pc = "run"
    /\ entries = <<>>
    /\ cursor = 0
    /\ saved = "ok"
    /\ file = GoodFile(Encode("main", <<>>))

\* a delete in the filterable list, with no filter result in flight and the
\* filtered items up to date, that takes away a record other than the one
\* under the cursor
DeletesAnother ==
    /\ variant = "list"
    /\ pc = "run"
    /\ pc' = "run"
    /\ Len(list'.items) < Len(list.items)
    /\ pending = <<>>
    /\ \/ list.filterState = "Unfiltered"
       \/ list.filteredItems = filterItems(variant, list.filterValue, list.items)
    /\ \/ list.items[list.index + 1] # SelectedItem(list)
       \/ Len(hosts) - Len(hosts') > 1

(* C5: deleting a record other than the one under the cursor leaves the    *)
(* cursor, once brought back into range, on the same record.               *)
C5_DeleteKeepsCursorTarget ==
    [][DeletesAnother
          => /\ HasSelection(ClampIndex(list'))
             /\ SelectedItem(ClampIndex(list')) = SelectedItem(list)]_vars

\* the record under the cursor
AtCursor == IF variant = "main" THEN entries[cursor + 1] ELSE SelectedItem(list)

(* C6: the connection argument handed to ssh is the user, "@" and the host *)
(* name of the record under the cursor, both unchanged, even when empty.   *)
C6_ConnectArgument ==
    pc = "child" => ssh.arg = AtCursor.User \o <<"@">> \o AtCursor.HostName

\* connected to the second record of the filterable list, whose host name
\* is empty
C6_Witness ==
    /\ variant = "main2"
    /\ pc = "child"
    /\ ssh.started
    /\ list.index = 1
    /\ SelectedItem(list).HostName = <<>>
    /\ ssh.arg = <<"u", "@">>

\* two records that differ at most in whether the tags are nil or empty
SameHost(a, b) ==
    /\ a.Host = b.Host
    /\ a.HostName = b.HostName
    /\ a.User = b.User
    /\ a.ForwardAgent = b.ForwardAgent
    /\ a.Tags.elems = b.Tags.elems
    /\ a.Description = b.Description

(* C7: a sequence of host records saved and then loaded comes back equal,  *)
(* whatever the fields hold, empty tag lists included.                     *)
C7_SaveLoadRoundTrip ==
    pc = "loaded" => /\ loadErrs = 0
                     /\ Len(entries) = Len(hosts)
                     /\ \A i \in 1..Len(hosts) : SameHost(entries[i], hosts[i])

\* two records came back, one with an empty tag list and one whose text
\* needs escaping
C7_Witness ==
    /\ pc = "loaded"
    /\ Len(entries) = 2
    /\ entries[1].Tags = Slice(<<>>)
    /\ entries[2].Description = <<"a", "\"", "\\">>
    /\ Len(entries[2].Tags.elems) = 2

\* term occurs in target as a contiguous run
IsSubstring(term, target) ==
    \E i \in 0..(Len(target) - Len(term)) :
        SubSeq(target, i + 1, i + Len(term)) = term

\* the characters of term occur in target in order
InOrder(term, target) ==
    \E f \in [1..Len(term) -> 1..Len(target)] :
        /\ \A i \in 1..Len(term) : target[f[i]] = term[i]
        /\ \A i, j \in 1..Len(term) : i < j => f[i] < f[j]

\* the text an item is filtered by: the host in the one list; host,
\* description and tags joined by spaces in the other
FilterText(i) ==
    IF variant = "main2"
    THEN i.Host \o <<" ">> \o i.Description \o <<" ">> \o Join(i.Tags.elems, <<" ">>)
    ELSE i.Host

\* the result of filtering the current items by the current non-empty text
\* arrives while the filter is being edited
FilterResultArrives ==
    /\ pc = "run"
    /\ pending # <<>>
    /\ pending' = Tail(pending)
    /\ Head(pending) = MatchesMsg(variant, list)
    /\ list.filterState = "Filtering"
    /\ list.filterValue # <<>>

\* what the visible list must be given the set of matching positions
ExactlyOneOrNone(matching) ==
    /\ Cardinality(matching) = 1
          => Visible' = <<list.items[CHOOSE i \in matching : TRUE]>>
    /\ matching = {} => Visible' = <<>>

C9_FilterSuppressesCommands ==
    [][(pc = "run" /\ variant # "main" /\ list.filterState = "Filtering")
          => /\ Backing' = Backing
             /\ Len(list'.items) = Len(list.items)
             /\ saved' = "none"
             /\ ~(isAdding' /\ ~isAdding)
             /\ ~(ssh'.started /\ ~ssh.started)]_vars

(* C10: while the wizard is active a key changes the wizard's state only:  *)
(* the list, its cursor and its filter stay as they are.                   *)
C10_WizardKeysStayInWizard ==
    [][(pc = "run" /\ isAdding /\ pending' = pending)
          => /\ cursor' = cursor
             /\ choices' = choices
             /\ list' = list]_vars

(* C11: no key is fatal to the event loop: connect or delete on an empty   *)
(* list finds no selection and leaves the program running.                 *)
C11_NoKeyIsFatal ==
    [][pc = "run" => pc' # "panic"]_vars

(* C12: whenever a save fails, whichever operation asked for it, the       *)
(* failure is written to the error stream and no success status is shown.  *)
C12_SaveFailureReported ==
    [][saved' = "failed"
          => /\ errOut'
             /\ list'.statusMessage # <<"Saved Config">>]_vars

(* C13: on connect the UI has released the terminal before the ssh child   *)
(* process is started.                                                     *)
C13_UiReleasedBeforeChild ==
    pc = "child" => ~ssh.uiUp

\* the ssh child was started and has exited
ChildHasExited == ssh.started /\ pc # "child"

(* C14: once the ssh child has exited the program ends with exit code 0:   *)
(* the only step left is the exit, and no key is handled any more.         *)
C14_ExitAfterChild ==
    [][ChildHasExited
          => /\ pc' = "exit0"
             /\ list' = list
             /\ mainState' = mainState
             /\ file' = file
             /\ ssh' = ssh]_vars

\* the step in which the wizard completes
WizardCompletes == pc = "run" /\ isAdding /\ ~isAdding'

(* C15: in the record the wizard assembles, an empty tags buffer gives no  *)
(* tags, and a non-empty tags buffer without a comma gives exactly one tag *)
(* equal to the buffer.                                                    *)
C15_WizardTags ==
    [][WizardCompletes
          => LET tags == entries'[Len(entries')].Tags.elems
                 buf == inputBuffer[5]
             IN  /\ Len(entries') = Len(entries) + 1
                 /\ buf = <<>> => Len(tags) = 0
                 /\ (buf # <<>> /\ \A i \in 1..Len(buf) : buf[i] # Comma)
                        => tags = <<buf>>]_vars

\* the step in which the add key of the filterable list inserts a record
InsertStep == variant = "list" /\ pc = "run" /\ Len(hosts') = Len(hosts) + 1

(* C16: an insert puts the new record at the front of both the visible     *)
(* list and the backing sequence, so that unfiltered they stay in the same *)
(* order.                                                                  *)
C16_InsertAtFront ==
    [][InsertStep
          => LET new == list'.items[1]
             IN  /\ list'.items = <<new>> \o list.items
                 /\ hosts' = <<new>> \o hosts]_vars

\* hs without its first record whose Host is host
RECURSIVE RemoveFirstByHost(_, _)
RemoveFirstByHost(hs, host) ==
    IF hs = <<>> THEN <<>>
    ELSE IF Head(hs).Host = host THEN Tail(hs)
    ELSE <<Head(hs)>> \o RemoveFirstByHost(Tail(hs), host)

\* the step in which the delete key of the filterable list removes an item
DeleteStep == variant = "list" /\ pc = "run" /\ Len(list'.items) < Len(list.items)

(* C17: a delete removes the first match only: when several backing        *)
(* records share the host of the selected item, exactly one of them, the   *)
(* first, leaves the backing sequence and exactly one item leaves the list.*)
C17_DeleteFirstMatchOnly ==
    [][DeleteStep
          => /\ Len(list'.items) = Len(list.items) - 1
             /\ hosts' = RemoveFirstByHost(hosts, SelectedItem(list).Host)]_vars

\* a key handled while the wizard is active
WizardKey == pc = "run" /\ isAdding /\ pending' = pending

C20_EditChangesOneBuffer ==
    [][(pc = "run" /\ isAdding /\ inputField' = inputField)
          => LET i == inputField + 1
                 old == inputBuffer[i]
                 new == inputBuffer'[i]
             IN  /\ \A j \in (1..6) \ {i} : inputBuffer'[j] = inputBuffer[j]
                 /\ \/ old = <<>> /\ new = old
                    \/ Len(old) > 0 /\ new = SubSeq(old, 1, Len(old) - 1)
                    \/ Len(new) = Len(old) + 1 /\ SubSeq(new, 1, Len(old)) = old
                 /\ UNCHANGED <<entries, choices, cursor, file, isAdding>>]_vars

\* the step of main2 in which a save succeeds: the wizard completes, or "d"
SaveStep == variant = "main2" /\ pc = "run" /\ saved' = "ok"

(* C21: where the program saves by itself on wizard completion and on      *)
(* delete, after a successful load every successful save leaves in the     *)
(* Store exactly the list the user sees with no filter active, in order:   *)
(* no loaded host is lost.                                                 *)
C21_SaveKeepsHosts ==
    [][SaveStep
          => LET store == Decode(variant, file'.doc)
                 seen  == list'.items
             IN  /\ Len(store) = Len(seen)
                 /\ \A i \in 1..Len(seen) : SameHost(store[i], seen[i])]_vars

====
